---- MODULE Spec2Model ----
(***************************************************************************)
(* Model of the two bit-banging drivers of the STM32 quiz firmware:        *)
(*   - i2c.c    : HD44780 character LCD behind a PCF8574 I2C expander      *)
(*   - ws2812b.c: WS2812B addressable LED single-wire transmitter          *)
(*                                                                         *)
(* Every C function is an operator from a driver state record to a driver  *)
(* state record, translated statement by statement.  The record holds the  *)
(* file-scope statics of i2c.c and a log of what the function did to its   *)
(* collaborators (bus transmits and HAL_Delay calls, in program order).    *)
(***************************************************************************)
EXTENDS Integers, Sequences, FiniteSets, TLC

(***************************************************************************)
(* Program constants                                                       *)
(***************************************************************************)
\* i2c.h: PCF8574 bit mapping
P_CF_RS == 1
P_CF_RW == 2
P_CF_EN == 4
P_CF_BL == 8
\* i2c.c: nibble -> PCF8574 shift
PCF_NIBBLE_SHIFT == 4
\* The offsets the comment of PCF_NIBBLE_SHIFT offers for other wirings
NibbleShifts == { 3, 4, 5 }

\* The PCF_NIBBLE_SHIFT the firmware was compiled with (it can be given on
\* the compiler's command line: #ifndef PCF_NIBBLE_SHIFT)
VARIABLE nibble_shift
\* i2c.c: static uint8_t lcd_addr = 0x27
DEFAULT_LCD_ADDR == 39

\* Compile-time display geometries <<LCD_ROWS, LCD_COLS>>: the build's 16x2
\* (i2c.h), the other tabulated one (20x4) and a one-line display.
Geometries == { <<2, 16>>, <<4, 20>>, <<1, 16>> }

(***************************************************************************)
(* 8-bit arithmetic                                                        *)
(***************************************************************************)
Bit(x, i) == (x \div (2 ^ i)) % 2

AND8(a, b) ==
    LET t(i) == (Bit(a, i) * Bit(b, i)) * (2 ^ i)
    IN  t(0) + t(1) + t(2) + t(3) + t(4) + t(5) + t(6) + t(7)

OR8(a, b) ==
    LET t(i) == (IF Bit(a, i) + Bit(b, i) > 0 THEN 1 ELSE 0) * (2 ^ i)
    IN  t(0) + t(1) + t(2) + t(3) + t(4) + t(5) + t(6) + t(7)

\* ~x seen through a uint8_t
NOT8(x) == 255 - (x % 256)

Min(a, b) == IF a < b THEN a ELSE b

(***************************************************************************)
(* The bus transport (HAL, an external collaborator).  A fault pattern     *)
(* says which transmits of a call fail and with which status: transmit n   *)
(* (from 1) fails when n >= from and (n - from) is a multiple of every.    *)
(***************************************************************************)
NoFault == [kind |-> "HAL_OK", from |-> 1, every |-> 1]

Faults ==
    { NoFault,
      [kind |-> "HAL_ERROR",   from |-> 1, every |-> 1],
      [kind |-> "HAL_TIMEOUT", from |-> 2, every |-> 3] }

HAL_I2C_Master_Transmit(fault, n) ==
    IF n >= fault.from /\ (n - fault.from) % fault.every = 0
    THEN fault.kind
    ELSE "HAL_OK"

(***************************************************************************)
(* Driver state record threaded through the functions of i2c.c:            *)
(*   hi2c_lcd, lcd_addr, backlight : the file-scope statics                *)
(*   fault : the transport's failure pattern during this call              *)
(*   nw    : number of transmits issued so far in this call                *)
(*   bus   : events of this call, in order:                                *)
(*           [k |-> "W", v |-> byte, a |-> device address, s |-> status]   *)
(*           [k |-> "D", v |-> milliseconds, a |-> 0, s |-> "-"]           *)
(*   rd    : indices at which lcd_show_wrapped / lcd_scroll_line indexed   *)
(*           their string argument (s[...], text[...]) in this call        *)
(*   wr    : indices at which they wrote their local buffer (tmp, buf)     *)
(***************************************************************************)
Driver(h, addr, bl, fault) ==
    [hi2c_lcd |-> h, lcd_addr |-> addr, backlight |-> bl,
     fault |-> fault, nw |-> 0, bus |-> << >>, rd |-> {}, wr |-> {}]

HAL_Delay(st, ms) ==
    [st EXCEPT !.bus = Append(@, [k |-> "D", v |-> ms, a |-> 0, s |-> "-"])]

\* static HAL_StatusTypeDef pcf_write(uint8_t data): the returned status
pcf_write_status(st, data) == HAL_I2C_Master_Transmit(st.fault, st.nw + 1)

\* static HAL_StatusTypeDef pcf_write(uint8_t data): the effect
pcf_write(st, data) ==
    [st EXCEPT !.nw  = @ + 1,
               !.bus = Append(@, [k |-> "W", v |-> data % 256,
                                  a |-> (st.lcd_addr * 2) % 65536,
                                  s |-> pcf_write_status(st, data)])]

\* the enable pulse without the hold between its two edges
lcd_pulse_enable_no_hold(st, data) ==
    LET s1 == pcf_write(st, OR8(data, P_CF_EN))
        s3 == pcf_write(s1, AND8(data, NOT8(P_CF_EN)))
    IN  HAL_Delay(s3, 1)

\* static void lcd_pulse_enable(uint8_t data)
lcd_pulse_enable(st, data) ==
    LET s1 == pcf_write(st, OR8(data, P_CF_EN))
        s2 == HAL_Delay(s1, 1)
        s3 == pcf_write(s2, AND8(data, NOT8(P_CF_EN)))
    IN  HAL_Delay(s3, 1)

\* the frame with the backlight bit always set, whatever the flag
NibbleFrame_lit(shift, nibble, ctrl, bl) ==
    LET out == ((AND8(nibble, 15)) * (2 ^ shift)) % 256
    IN  OR8(out, OR8(AND8(ctrl, OR8(P_CF_RS, P_CF_RW)), P_CF_BL))

\* uint8_t out of lcd_write_nibble, for a given nibble shift
NibbleFrame(shift, nibble, ctrl, bl) ==
    LET out == ((AND8(nibble, 15)) * (2 ^ shift)) % 256
    IN  OR8(out, OR8(AND8(ctrl, OR8(P_CF_RS, P_CF_RW)), bl))

\* lcd_write_nibble giving up when the transmit of the frame fails
lcd_write_nibble_checked(st, nibble, ctrl) ==
    LET out == NibbleFrame(nibble_shift, nibble, ctrl, st.backlight)
    IN  IF pcf_write_status(st, out) # "HAL_OK"
        THEN pcf_write(st, out)
        ELSE lcd_pulse_enable(pcf_write(st, out), out)

\* static void lcd_write_nibble(uint8_t nibble, uint8_t ctrl)
lcd_write_nibble(st, nibble, ctrl) ==
    LET out == NibbleFrame(nibble_shift, nibble, ctrl, st.backlight)
    IN  lcd_pulse_enable(pcf_write(st, out), out)

\* static void lcd_send_cmd(uint8_t cmd)
lcd_send_cmd(st, cmd) ==
    LET ctrl == 0
        s1 == lcd_write_nibble(st, AND8(cmd \div 16, 15), ctrl)
        s2 == lcd_write_nibble(s1, AND8(cmd, 15), ctrl)
    IN  HAL_Delay(s2, 2)

\* lcd_send_data with the two nibbles in the wrong order
lcd_send_data_low_first(st, data) ==
    LET ctrl == P_CF_RS
        s1 == lcd_write_nibble(st, AND8(data, 15), ctrl)
        s2 == lcd_write_nibble(s1, AND8(data \div 16, 15), ctrl)
    IN  HAL_Delay(s2, 1)

\* static void lcd_send_data(uint8_t data)
lcd_send_data(st, data) ==
    LET ctrl == P_CF_RS
        s1 == lcd_write_nibble(st, AND8(data \div 16, 15), ctrl)
        s2 == lcd_write_nibble(s1, AND8(data, 15), ctrl)
    IN  HAL_Delay(s2, 1)

(***************************************************************************)
(* State                                                                   *)
(***************************************************************************)
VARIABLES
    geometry,     \* <<LCD_ROWS, LCD_COLS>> the firmware was compiled with
    hi2c_lcd,     \* i2c.c static: bound bus handle, "NULL" before lcd_init
    lcd_addr,     \* i2c.c static: 7-bit bus address
    backlight,    \* i2c.c static: backlight flag (P_CF_BL or 0)
    lcd_pc,       \* "idle": no display call in progress; "busy": inside one
    call,         \* the display call in progress, or the last one returned
    bus,          \* transmits and delays of that call, in program order
    expander      \* the byte the expander holds: the last one handed to
                  \* HAL_I2C_Master_Transmit by any call so far

lcd_vars == <<geometry, nibble_shift, hi2c_lcd, lcd_addr, backlight, lcd_pc,
              call, bus, expander>>

LCD_ROWS == geometry[1]
LCD_COLS == geometry[2]

(***************************************************************************)
(* C strings: a sequence of non-zero bytes; the terminator is the read at  *)
(* index Len(s) (from 0).  A read past the terminator is outside the       *)
(* object: OutOfBounds stands for the indeterminate byte it yields.        *)
(***************************************************************************)
OutOfBounds == 0 - 1

CharAt(s, idx) ==
    IF idx < Len(s) THEN s[idx + 1]
    ELSE IF idx = Len(s) THEN 0
    ELSE OutOfBounds

(***************************************************************************)
(* Public API of i2c.c                                                     *)
(***************************************************************************)
\* lcd_init without the nibble 0x02 that switches the controller to 4-bit mode
lcd_init_three_nibbles(st, hi2c, addr7bit) ==
    LET s0  == [st EXCEPT !.hi2c_lcd = hi2c,
                          !.lcd_addr = AND8(addr7bit, 127),
                          !.backlight = P_CF_BL]
        s1  == HAL_Delay(s0, 50)
        s2  == HAL_Delay(lcd_write_nibble(s1, 3, 0), 5)
        s3  == HAL_Delay(lcd_write_nibble(s2, 3, 0), 5)
        s4  == HAL_Delay(lcd_write_nibble(s3, 3, 0), 2)
        func == IF LCD_ROWS > 1 THEN OR8(32, 8) ELSE 32
        s6  == lcd_send_cmd(s4, OR8(func, 0))
        s7  == lcd_send_cmd(s6, 12)
        s8  == HAL_Delay(lcd_send_cmd(s7, 1), 2)
    IN  IF s2.nw >= 0 /\ s4.nw >= 0 /\ s6.nw >= 0 /\ s8.nw >= 0
        THEN lcd_send_cmd(s8, 6)
        ELSE st

\* void lcd_init(I2C_HandleTypeDef *hi2c, uint8_t addr7bit)
lcd_init(st, hi2c, addr7bit) ==
    LET s0  == [st EXCEPT !.hi2c_lcd = hi2c,
                          !.lcd_addr = AND8(addr7bit, 127),
                          !.backlight = P_CF_BL]
        s1  == HAL_Delay(s0, 50)
        s2  == HAL_Delay(lcd_write_nibble(s1, 3, 0), 5)
        s3  == HAL_Delay(lcd_write_nibble(s2, 3, 0), 5)
        s4  == HAL_Delay(lcd_write_nibble(s3, 3, 0), 2)
        s5  == HAL_Delay(lcd_write_nibble(s4, 2, 0), 2)
        func == IF LCD_ROWS > 1 THEN OR8(32, 8) ELSE 32
        s6  == lcd_send_cmd(s5, OR8(func, 0))
        s7  == lcd_send_cmd(s6, 12)
        s8  == HAL_Delay(lcd_send_cmd(s7, 1), 2)
    IN  IF s2.nw >= 0 /\ s4.nw >= 0 /\ s6.nw >= 0 /\ s8.nw >= 0
        THEN lcd_send_cmd(s8, 6)
        ELSE st

\* void lcd_clear(void)
lcd_clear(st) == HAL_Delay(lcd_send_cmd(st, 1), 2)

\* the row wrapped instead of clamped
put_cur_row_wrapped(row) == row % LCD_ROWS

\* lcd_put_cur, lines 148-149: the row and the column after the range checks
put_cur_row(row) == IF row >= LCD_ROWS THEN LCD_ROWS - 1 ELSE row
put_cur_col(col) == IF col >= LCD_COLS THEN LCD_COLS - 1 ELSE col

\* the address as a linear formula instead of the controller's table
put_cur_addr_linear(row, col) == (row * LCD_COLS + col) % 256

\* lcd_put_cur, lines 151-170: uint8_t addr for a row and column in range
put_cur_addr(row, col) ==
    IF LCD_ROWS = 2 /\ LCD_COLS = 16
    THEN ((IF row = 0 THEN 0 ELSE 64) + col) % 256
    ELSE IF LCD_ROWS = 4 /\ LCD_COLS = 20
    THEN CASE row = 0 -> (0 + col) % 256
           [] row = 1 -> (64 + col) % 256
           [] row = 2 -> (20 + col) % 256
           [] row = 3 -> (84 + col) % 256
           [] OTHER   -> (0 + col) % 256
    ELSE ((IF row = 0 THEN 0 ELSE 64) + col) % 256

\* void lcd_put_cur(uint8_t row, uint8_t col)
lcd_put_cur(st, row, col) ==
    LET r    == put_cur_row(row % 256)
        c    == put_cur_col(col % 256)
        addr == put_cur_addr(r, c)
    IN  lcd_send_cmd(st, OR8(128, addr))

\* void lcd_send_string(const char *str)
\* (in the loops, the test st.nw >= 0 is always true: it makes the state left
\* by the previous iteration be computed before the next one is entered)
RECURSIVE lcd_send_string(_, _)
lcd_send_string(st, str) ==
    IF st.nw >= 0 /\ CharAt(str, 0) # 0
    THEN lcd_send_string(lcd_send_data(st, CharAt(str, 0) % 256), Tail(str))
    ELSE st

\* the backlight flag toggled instead of set
lcd_backlight_on_toggle(st) ==
    LET s1 == [st EXCEPT !.backlight = IF @ = 0 THEN P_CF_BL ELSE 0]
    IN  pcf_write(s1, s1.backlight)

\* void lcd_backlight_on(void)
lcd_backlight_on(st) ==
    LET s1 == [st EXCEPT !.backlight = P_CF_BL]
    IN  pcf_write(s1, s1.backlight)

\* void lcd_backlight_off(void)
lcd_backlight_off(st) ==
    LET s1 == [st EXCEPT !.backlight = 0]
    IN  pcf_write(s1, s1.backlight)

\* the copy loop stopping one character short of the row
RECURSIVE show_wrapped_copy_short(_, _, _)
show_wrapped_copy_short(s, offset, i) ==
    IF i < LCD_COLS - 1 /\ CharAt(s, offset + i) # 0
    THEN show_wrapped_copy_short(s, offset, i + 1)
    ELSE i

\* lcd_show_wrapped, line 224: the copy loop; yields the final i
RECURSIVE show_wrapped_copy(_, _, _)
show_wrapped_copy(s, offset, i) ==
    IF i < LCD_COLS /\ CharAt(s, offset + i) # 0
    THEN show_wrapped_copy(s, offset, i + 1)
    ELSE i

\* the row loop without the break at the terminator
RECURSIVE show_wrapped_rows_no_break(_, _, _)
show_wrapped_rows_no_break(st, s, r) ==
    IF st.nw >= 0 /\ r < LCD_ROWS
    THEN LET offset == r * LCD_COLS
             i      == IF offset <= Len(s) THEN show_wrapped_copy(s, offset, 0) ELSE 0
             tmp    == [j \in 1..i |-> CharAt(s, offset + j - 1)]
             s0     == [st EXCEPT !.rd = @ \cup (offset..(offset + i)),
                                  !.wr = @ \cup (0..i)]
             s1     == lcd_put_cur(s0, r, 0)
             s2     == lcd_send_string(s1, tmp)
         IN  show_wrapped_rows_no_break(s2, s, r + 1)
    ELSE st

\* lcd_show_wrapped, line 224: the indices of s the copy loop reads when it
\* ends with i: offset .. offset + i - 1, and offset + i if the test of
\* s[offset + i] is reached (i < LCD_COLS)
show_wrapped_copy_reads(offset, i) ==
    (offset..(offset + i - 1)) \cup (IF i < LCD_COLS THEN { offset + i } ELSE {})

\* the row loop testing the first character of the next row, s[offset +
\* LCD_COLS], instead of s[offset + i]
RECURSIVE show_wrapped_rows_peek(_, _, _)
show_wrapped_rows_peek(st, s, r) ==
    IF st.nw >= 0 /\ r < LCD_ROWS
    THEN LET offset == r * LCD_COLS
             i      == show_wrapped_copy(s, offset, 0)
             tmp    == [j \in 1..i |-> CharAt(s, offset + j - 1)]
             s0     == [st EXCEPT
                          !.rd = @ \cup show_wrapped_copy_reads(offset, i)
                                   \cup { offset + LCD_COLS },
                          !.wr = @ \cup (0..i)]
             s1     == lcd_put_cur(s0, r, 0)
             s2     == lcd_send_string(s1, tmp)
         IN  IF CharAt(s, offset + LCD_COLS) = 0
             THEN s2
             ELSE show_wrapped_rows_peek(s2, s, r + 1)
    ELSE st

\* lcd_show_wrapped, lines 221-229: the row loop from row r on.  tmp[0..i-1]
\* are written by the copy loop, tmp[i] by line 225; s[offset + i] is read by
\* line 228
RECURSIVE show_wrapped_rows(_, _, _)
show_wrapped_rows(st, s, r) ==
    IF st.nw >= 0 /\ r < LCD_ROWS
    THEN LET offset == r * LCD_COLS
             i      == show_wrapped_copy(s, offset, 0)
             tmp    == [j \in 1..i |-> CharAt(s, offset + j - 1)]
             s0     == [st EXCEPT
                          !.rd = @ \cup show_wrapped_copy_reads(offset, i)
                                   \cup { offset + i },
                          !.wr = @ \cup (0..i)]
             s1     == lcd_put_cur(s0, r, 0)
             s2     == lcd_send_string(s1, tmp)
         IN  IF CharAt(s, offset + i) = 0
             THEN s2
             ELSE show_wrapped_rows(s2, s, r + 1)
    ELSE st

\* void lcd_ascii_test(void), rows r and after: buf holds the len characters
\* from base on, as char
RECURSIVE ascii_test_rows(_, _)
ascii_test_rows(st, r) ==
    IF st.nw >= 0 /\ r < LCD_ROWS
    THEN LET base == 32 + r * LCD_COLS
             len  == IF LCD_COLS > 32 - 1 THEN 32 - 1 ELSE LCD_COLS
             buf  == [i \in 1..len |-> (base + (i - 1)) % 256]
             s1   == [st EXCEPT !.wr = @ \cup (0..len)]
         IN  ascii_test_rows(lcd_send_string(lcd_put_cur(s1, r, 0), buf), r + 1)
    ELSE st

\* void lcd_ascii_test(void)
lcd_ascii_test(st) == ascii_test_rows(st, 0)

\* void lcd_show_wrapped(const char *s)
lcd_show_wrapped(st, s) == show_wrapped_rows(st, s, 0)

\* size_t strlen(const char *): the library routine reads up to the terminator
RECURSIVE strlen_from(_, _)
strlen_from(s, n) == IF CharAt(s, n) # 0 THEN strlen_from(s, n + 1) ELSE n
strlen(s) == strlen_from(s, 0)

\* the window loop stopping one step before the window reaches the end
RECURSIVE scroll_line_steps_short(_, _, _, _, _, _)
scroll_line_steps_short(st, row, text, delay_ms, len, start) ==
    IF st.nw >= 0 /\ start < len - LCD_COLS
    THEN LET buf == [j \in 1..LCD_COLS |-> CharAt(text, start + j - 1)]
             s0  == [st EXCEPT !.rd = @ \cup (start..(start + LCD_COLS - 1)),
                               !.wr = @ \cup (0..LCD_COLS)]
             s1  == lcd_put_cur(s0, row, 0)
             s2  == lcd_send_string(s1, buf)
             s3  == HAL_Delay(s2, delay_ms)
         IN  scroll_line_steps_short(s3, row, text, delay_ms, len, start + 1)
    ELSE st

\* lcd_scroll_line, lines 244-250: the window loop from start on
RECURSIVE scroll_line_steps(_, _, _, _, _, _)
scroll_line_steps(st, row, text, delay_ms, len, start) ==
    IF st.nw >= 0 /\ start <= len - LCD_COLS
    THEN LET buf == [j \in 1..LCD_COLS |-> CharAt(text, start + j - 1)]
             s0  == [st EXCEPT !.rd = @ \cup (start..(start + LCD_COLS - 1)),
                               !.wr = @ \cup (0..LCD_COLS)]
             s1  == lcd_put_cur(s0, row, 0)
             s2  == lcd_send_string(s1, buf)
             s3  == HAL_Delay(s2, delay_ms)
         IN  scroll_line_steps(s3, row, text, delay_ms, len, start + 1)
    ELSE st

\* void lcd_scroll_line(uint8_t row, const char *text, uint16_t delay_ms)
lcd_scroll_line(st, row, text, delay_ms) ==
    LET len == strlen(text)
    IN  IF len <= LCD_COLS
        THEN lcd_send_string(lcd_put_cur(st, row, 0), text)
        ELSE scroll_line_steps(st, row, text, delay_ms, len, 0)

(***************************************************************************)
(* ws2812b.c                                                               *)
(***************************************************************************)
\* Timing values for the WS2812 (in nanoseconds)
T0H == 350
T1H == 700
T0L == 800
T1L == 600

\* Largest frame (in LEDs) whose every buffer over SampleBytes is sent
MaxLeds == 2
\* Buffer bytes the frames are made of: 1000 0000 and 0011 0101
SampleBytes == { 128, 53 }
\* A one-LED frame and the shortest frame whose 3 * led_count is outside the
\* range of the loop's uint16_t index
BigLeds == { 1, 21846 }

VARIABLES
    SystemCoreClock, \* CMSIS global: core clock in Hz (uint32_t)
    primask,       \* PRIMASK: 1 when interrupts are masked
    tick_by_irq,   \* TRUE when the HAL millisecond tick is advanced only by
                   \* the tick interrupt (the HAL is not part of the sources)
    ws_pc,         \* "idle" | "loop" | "hold" | "done": position in ws2812b_send
    ws_buf,        \* led_buffer: [len |-> bytes in the buffer, tile |-> bytes
                   \*   b with led_buffer[i] = b[(i % Len(b)) + 1]]
    ws_led_count,  \* led_count
    ws_entry,      \* PRIMASK when the call started
    ws_irq_state,  \* irq_state
    ws_i,          \* uint16_t i
    ws_sent,       \* byte-loop iterations completed, counted up to one more
                   \* than the buffer holds
    ws_log         \* pin writes and waits of the call, in program order:
                   \*   [k |-> "PIN", v |-> level, m |-> PRIMASK, n |-> 0]
                   \*   [k |-> "NOP", v |-> nanoseconds asked, m |-> PRIMASK,
                   \*    n |-> iterations of the busy-wait loop]
                   \*   [k |-> "DELAY", v |-> milliseconds, m |-> PRIMASK, n |-> 0]

ws_vars == <<SystemCoreClock, primask, tick_by_irq, ws_pc, ws_buf, ws_led_count,
             ws_entry, ws_irq_state, ws_i, ws_sent, ws_log>>

\* main.c: the quiz application
VARIABLES
    quiz_pc,       \* position in main: "boot" line 118, and in its
                   \*   while (1) loop "show" line 138, "read" line 141,
                   \*   "wrap" line 176, "pause" line 179; "error" inside
                   \*   Error_Handler
    q_index,       \* int q_index
    score,         \* int score
    screen,        \* what the application last put on the display
    answered,      \* answers given since the round's first question was shown
    right,         \* correct answers among them
    rounds         \* rounds completed, counted up to MaxRounds

quiz_vars == <<quiz_pc, q_index, score, screen, answered, right, rounds>>

vars == <<lcd_vars, ws_vars, quiz_vars>>

(***************************************************************************)
(* uint32_t arithmetic of NS_TO_CYCLES.  A uint32_t value is kept as        *)
(* <<high 16 bits, low 16 bits>>.                                           *)
(***************************************************************************)
\* a * b in uint32_t (the product modulo 2^32), for a below 2^15
Mul32(a, b) ==
    LET bh  == b \div 65536
        bl  == b % 65536
        low == a * bl
    IN  << (a * bh + (low \div 65536)) % 65536, low % 65536 >>

Leq32(x, y) == x[1] < y[1] \/ (x[1] = y[1] /\ x[2] <= y[2])

\* x / 1000000000UL in uint32_t: the quotient is at most 4
DivBillion32(x) ==
    Cardinality({ q \in 1..4 : Leq32(Mul32(q, 1000000000), x) })

\* #define NS_TO_CYCLES(n)  ((n) * SystemCoreClock / 1000000000UL)
NS_TO_CYCLES(n) == DivBillion32(Mul32(n, SystemCoreClock))

\* static void ws2812b_delay(uint32_t ns): the number of iterations of
\* while (cycles--)
ws2812b_delay(ns) == NS_TO_CYCLES(ns) \div 2

\* SystemClock_Config: HSI 16 MHz, PLLM 16, PLLN 336, PLLP 4, AHB divider 1
ConfiguredClock == ((16000000 \div 16) * 336) \div 4
\* The configured clock, and the 168 MHz the comment of NS_TO_CYCLES assumes
CoreClocks == { ConfiguredClock, 168000000 }

\* led_buffer[i]
BufAt(buf, i) ==
    IF i < buf.len THEN buf.tile[(i % Len(buf.tile)) + 1] ELSE OutOfBounds

WsEvent(kind, value, mask) == [k |-> kind, v |-> value, m |-> mask, n |-> 0]

\* a call of ws2812b_delay(ns)
WsNop(ns, mask) == [k |-> "NOP", v |-> ns, m |-> mask, n |-> ws2812b_delay(ns)]

\* The pin log is kept for the frames of up to MaxLeds LEDs
WsLogAppend(led_count, log, evs) ==
    IF led_count <= MaxLeds THEN log \o evs ELSE log

\* one bit with the low wait of a '1' shortened so that both bit values take
\* T0H + T0L
ws_bit_pulse_equal_period(cur_byte, bit, mask) ==
    IF AND8(cur_byte, 2 ^ bit) # 0
    THEN << WsEvent("PIN", 1, mask), WsNop(T1H, mask),
            WsEvent("PIN", 0, mask), WsNop(T0H + T0L - T1H, mask) >>
    ELSE << WsEvent("PIN", 1, mask), WsNop(T0H, mask),
            WsEvent("PIN", 0, mask), WsNop(T0L, mask) >>

\* ws2812b_send, lines 27-39: one bit of cur_byte
ws_bit_pulse(cur_byte, bit, mask) ==
    IF AND8(cur_byte, 2 ^ bit) # 0
    THEN << WsEvent("PIN", 1, mask), WsNop(T1H, mask),
            WsEvent("PIN", 0, mask), WsNop(T1L, mask) >>
    ELSE << WsEvent("PIN", 1, mask), WsNop(T0H, mask),
            WsEvent("PIN", 0, mask), WsNop(T0L, mask) >>

\* ws2812b_send, line 26: for (int8_t bit = 7; bit >= 0; bit--)
RECURSIVE ws_byte_pulses(_, _, _)
ws_byte_pulses(cur_byte, bit, mask) ==
    IF bit >= 0
    THEN ws_bit_pulse(cur_byte, bit, mask) \o ws_byte_pulses(cur_byte, bit - 1, mask)
    ELSE << >>

\* the loop condition off by one
ws_loop_cond_inclusive(i, led_count) == i <= led_count * 3

\* ws2812b_send, line 24: the loop condition i < led_count * 3, in int
ws_loop_cond(i, led_count) == i < led_count * 3

\* interrupts enabled on the way out whatever irq_state holds
ws_restore_always(irq_state, mask) == 0

\* ws2812b_send, line 47: PRIMASK after "if (!irq_state) __enable_irq();"
ws_restore(irq_state, mask) == IF irq_state = 0 THEN 0 ELSE mask

\* ws2812b_send, lines 21-24: entry, up to the first test of the byte loop
WsEnter(buf, led_count) ==
    /\ ws_pc \in {"idle", "done"}
    /\ ws_buf' = buf
    /\ ws_led_count' = led_count
    /\ ws_entry' = primask
    /\ ws_irq_state' = primask          \* __get_PRIMASK()
    /\ primask' = 1                     \* __disable_irq()
    /\ ws_i' = 0
    /\ ws_sent' = 0
    /\ ws_log' = << >>
    /\ ws_pc' = "loop"
    /\ UNCHANGED <<lcd_vars, quiz_vars, SystemCoreClock, tick_by_irq>>

\* Frames of up to MaxLeds LEDs
SmallFrames ==
    UNION { { [len |-> 3 * n, tile |-> b] : b \in [1..(3 * n) -> SampleBytes] }
            : n \in 0..MaxLeds }

WsCall == \E buf \in SmallFrames : WsEnter(buf, buf.len \div 3)

\* Long frames: the buffer repeats a three-byte tile
WsCallBig ==
    \E n \in BigLeds : WsEnter([len |-> 3 * n, tile |-> <<128, 53, 128>>], n)

\* ws2812b_send, lines 24-41: one iteration of the byte loop
WsByte ==
    /\ ws_pc = "loop"
    /\ ws_loop_cond(ws_i, ws_led_count)
    /\ LET cur_byte == BufAt(ws_buf, ws_i)
       IN  ws_log' = WsLogAppend(ws_led_count, ws_log, ws_byte_pulses(cur_byte, 7, primask))
    /\ ws_i' = (ws_i + 1) % 65536
    /\ ws_sent' = Min(ws_sent + 1, 3 * ws_led_count + 1)
    /\ UNCHANGED <<lcd_vars, quiz_vars, SystemCoreClock, primask, tick_by_irq,
                   ws_pc, ws_buf, ws_led_count, ws_entry, ws_irq_state>>

\* ws2812b_send, lines 42-44: loop exit, pin low, HAL_Delay(1) entered
WsReset ==
    /\ ws_pc = "loop"
    /\ ~ws_loop_cond(ws_i, ws_led_count)
    /\ ws_log' = WsLogAppend(ws_led_count, ws_log,
                           << WsEvent("PIN", 0, primask),
                              WsEvent("DELAY", 1, primask) >>)
    /\ ws_pc' = "hold"
    /\ UNCHANGED <<lcd_vars, quiz_vars, SystemCoreClock, primask, tick_by_irq,
                   ws_buf, ws_led_count, ws_entry, ws_irq_state, ws_i, ws_sent>>

\* ws2812b_send, lines 44-48: HAL_Delay(1) returns, interrupts restored,
\* return.  The delay ends when the millisecond tick advances.
WsReturn ==
    /\ ws_pc = "hold"
    /\ (primask = 0 \/ ~tick_by_irq)
    /\ primask' = ws_restore(ws_irq_state, primask)
    /\ ws_pc' = "done"
    /\ UNCHANGED <<lcd_vars, quiz_vars, SystemCoreClock, tick_by_irq, ws_buf,
                   ws_led_count, ws_entry, ws_irq_state, ws_i, ws_sent, ws_log>>

(***************************************************************************)
(* The display driver as a state machine: the application enters a public  *)
(* function with its arguments (LcdEnter), the function runs to its return *)
(* as one step.                                                            *)
(***************************************************************************)
\* No byte: nothing has been written to the expander yet
NoByte == 0 - 1

\* Longest string handed to lcd_send_string directly
MaxSendLen == 3
\* Characters by which the strings handed to lcd_show_wrapped exceed the
\* display area, and those handed to lcd_scroll_line exceed one row
MaxExtra == 2

\* Test strings: consecutive character codes from a base, so that nearby
\* positions hold different characters; the second base has bit 7 set
Str(base, len) == [j \in 1..len |-> base + ((j - 1) % 90)]
StrBases == { 33, 161 }

\* A call: the function, its integer arguments n1 and n2, its string argument,
\* the byte on the expander before it and the function called before it (both
\* kept for the backlight functions only), the fault patterns the transport
\* may show during it and the one it showed, and, once it has returned, the
\* indices at which it indexed str (rd) and wrote its local buffer (wr)
Call(op, n1, n2, str) ==
    [op |-> op, n1 |-> n1, n2 |-> n2, str |-> str,
     pre |-> NoByte, prev |-> "none",
     transport |-> Faults, fault |-> NoFault, rd |-> {}, wr |-> {}]

\* The byte the expander outputs after the events of a log: the last transmit
RECURSIVE LastWrite(_, _)
LastWrite(log, i) ==
    IF i = 0 THEN NoByte
    ELSE IF log[i].k = "W" THEN log[i].v
    ELSE LastWrite(log, i - 1)

InitAddrs   == { 63, 167 }
PutCurRows  == { 0, LCD_ROWS - 1, LCD_ROWS }
PutCurCols  == { 0, LCD_COLS - 1, LCD_COLS }
SendStrings == { Str(b, n) : b \in StrBases, n \in 0..MaxSendLen }
WrapStrings == { Str(33, n) : n \in 0..(LCD_ROWS * LCD_COLS + MaxExtra) }
                 \cup { Str(161, n) : n \in { LCD_COLS - 1, LCD_COLS,
                                              LCD_ROWS * LCD_COLS } }
ScrollRows    == { 0, LCD_ROWS }
ScrollStrings == { Str(33, n) : n \in 0..(LCD_COLS + MaxExtra) }
ScrollDelays  == { 250 }

\* The calls of one public function each, on every argument above
SingleCalls ==
    { Call("lcd_init", a, 0, << >>) : a \in InitAddrs }
    \cup { Call("lcd_clear", 0, 0, << >>) }
    \cup { Call("lcd_put_cur", r, c, << >>) : r \in PutCurRows, c \in PutCurCols }
    \cup { Call("lcd_send_string", 0, 0, s) : s \in SendStrings }
    \cup { Call("lcd_ascii_test", 0, 0, << >>) }
    \cup { [Call(op, 0, 0, << >>) EXCEPT !.pre = expander]
           : op \in { "lcd_backlight_on", "lcd_backlight_off" } }
    \cup { Call("lcd_show_wrapped", 0, 0, s) : s \in WrapStrings }
    \cup { Call("lcd_scroll_line", r, d, s) :
           r \in ScrollRows, s \in ScrollStrings, d \in ScrollDelays }

\* The calls an application makes one after the other: every public function,
\* on a few arguments each (the empty string among them), the backlight
\* functions with the byte the expander holds and the function called before
ApiCalls ==
    { Call("lcd_init", a, 0, << >>) : a \in InitAddrs }
    \cup { Call("lcd_clear", 0, 0, << >>) }
    \cup { Call("lcd_put_cur", rc[1], rc[2], << >>) :
           rc \in { <<0, 0>>, <<LCD_ROWS, LCD_COLS - 1>> } }
    \cup { Call("lcd_send_string", 0, 0, s) : s \in { Str(33, 0), Str(161, 1) } }
    \cup { Call("lcd_ascii_test", 0, 0, << >>) }
    \cup { [Call(op, 0, 0, << >>) EXCEPT !.pre = expander,
                                         !.prev = call.op]
           : op \in { "lcd_backlight_on", "lcd_backlight_off" } }
    \cup { Call("lcd_show_wrapped", 0, 0, s) :
           s \in { Str(33, LCD_COLS), Str(33, LCD_ROWS * LCD_COLS + 1) } }
    \cup { Call("lcd_scroll_line", 0, d, Str(33, LCD_COLS + 1)) :
           d \in ScrollDelays }

\* The application calls a public function of i2c.c
LcdEnter ==
    /\ lcd_pc = "idle"
    /\ \E c \in ApiCalls :
         /\ c.op # "lcd_init" => hi2c_lcd # "NULL"
         /\ call' = c
    /\ lcd_pc' = "busy"
    /\ bus' = << >>
    /\ UNCHANGED <<geometry, nibble_shift, hi2c_lcd, lcd_addr, backlight,
                   expander, ws_vars, quiz_vars>>

\* The driver state at the entry of the call, under a transport fault pattern
Entry(f) == Driver(hi2c_lcd, lcd_addr, backlight, f)

\* The byte the expander holds after the events of a log, when it held
\* byte before them
Held(byte, log) ==
    IF LastWrite(log, Len(log)) # NoByte THEN LastWrite(log, Len(log)) ELSE byte

\* The function returns: its effects become the state
LcdReturn(st) ==
    /\ hi2c_lcd' = st.hi2c_lcd
    /\ lcd_addr' = st.lcd_addr
    /\ backlight' = st.backlight
    /\ bus' = st.bus
    /\ expander' = Held(expander, st.bus)
    /\ call' = [call EXCEPT !.fault = st.fault, !.rd = st.rd, !.wr = st.wr]
    /\ lcd_pc' = "idle"
    /\ UNCHANGED <<geometry, nibble_shift, ws_vars, quiz_vars>>

Running(op) == lcd_pc = "busy" /\ call.op = op

LcdInit ==
    /\ Running("lcd_init")
    /\ \E f \in call.transport : LcdReturn(lcd_init(Entry(f), "hi2c1", call.n1))

LcdClear ==
    /\ Running("lcd_clear")
    /\ \E f \in call.transport : LcdReturn(lcd_clear(Entry(f)))

LcdPutCur ==
    /\ Running("lcd_put_cur")
    /\ \E f \in call.transport : LcdReturn(lcd_put_cur(Entry(f), call.n1, call.n2))

LcdSendString ==
    /\ Running("lcd_send_string")
    /\ \E f \in call.transport : LcdReturn(lcd_send_string(Entry(f), call.str))

LcdBacklightOn ==
    /\ Running("lcd_backlight_on")
    /\ \E f \in call.transport : LcdReturn(lcd_backlight_on(Entry(f)))

LcdBacklightOff ==
    /\ Running("lcd_backlight_off")
    /\ \E f \in call.transport : LcdReturn(lcd_backlight_off(Entry(f)))

LcdShowWrapped ==
    /\ Running("lcd_show_wrapped")
    /\ \E f \in call.transport : LcdReturn(lcd_show_wrapped(Entry(f), call.str))

LcdScrollLine ==
    /\ Running("lcd_scroll_line")
    /\ \E f \in call.transport :
         LcdReturn(lcd_scroll_line(Entry(f), call.n1, call.str, call.n2))

LcdAsciiTest ==
    /\ Running("lcd_ascii_test")
    /\ \E f \in call.transport : LcdReturn(lcd_ascii_test(Entry(f)))

\* The static transfer functions, entered directly
LcdSendCmd ==
    /\ Running("lcd_send_cmd")
    /\ \E f \in call.transport : LcdReturn(lcd_send_cmd(Entry(f), call.n1))

LcdSendData ==
    /\ Running("lcd_send_data")
    /\ \E f \in call.transport : LcdReturn(lcd_send_data(Entry(f), call.n1))

LcdWriteNibble ==
    /\ Running("lcd_write_nibble")
    /\ \E f \in call.transport :
         LcdReturn(lcd_write_nibble(Entry(f), call.n1, call.n2))

(***************************************************************************)
(* main.c: the quiz.  Each step of main runs the display calls it makes on  *)
(* the driver; screen says what the step asked the display to show.  The    *)
(* answer check is seen through its result; the LED pins and the buzzer pin *)
(* are not part of the state.                                               *)
(***************************************************************************)
RUN_ASCII_TEST == 0

NUM_QUESTIONS == 3

\* const char *questions[NUM_QUESTIONS], as character codes
questions ==
    << << 72, 111, 119, 32, 109, 97, 110, 121, 32, 98, 111, 110, 101,
          115, 32, 32, 100, 111, 32, 104, 117, 109, 97, 110, 115, 32, 104,
          97, 118, 101, 63 >>,
       << 67, 117, 114, 114, 101, 110, 99, 121, 32, 111, 102, 32, 116,
          104, 101, 32, 80, 104, 105, 108, 105, 112, 112, 105, 110, 101,
          115, 32, 105, 115, 63 >>,
       << 32, 32, 87, 104, 97, 116, 32, 105, 115, 32, 116, 104, 101, 32,
          32, 32, 99, 97, 112, 105, 116, 97, 108, 32, 111, 102, 32, 74, 97,
          112, 97, 110, 63 >> >>

\* "Correct!"
CorrectText == << 67, 111, 114, 114, 101, 99, 116, 33 >>

\* "Wrong!"
WrongText == << 87, 114, 111, 110, 103, 33 >>

\* The core clock at reset: the internal oscillator SystemClock_Config feeds
\* to the PLL, undivided
ResetClock == 16 * 1000000

\* A step of main leaves the driver in st: its effects become the state
MainLcd(st) ==
    /\ hi2c_lcd' = st.hi2c_lcd
    /\ lcd_addr' = st.lcd_addr
    /\ backlight' = st.backlight
    /\ bus' = st.bus
    /\ expander' = Held(expander, st.bus)
    /\ UNCHANGED <<geometry, nibble_shift, lcd_pc, call>>

\* void play_tone(uint32_t freq, uint32_t duration_ms): the pin is toggled
\* between busy-wait loops; only a zero frequency waits on the tick
play_tone(st, freq, duration_ms) ==
    IF freq = 0 THEN HAL_Delay(st, duration_ms) ELSE st

\* void correct_sound(void)
correct_sound(st) ==
    play_tone(HAL_Delay(play_tone(st, 2000, 450), 200), 1000, 450)

\* void wrong_sound(void)
wrong_sound(st) == play_tone(st, 900, 4000)

\* Completed rounds counted
MaxRounds == 2

\* printf's %d
RECURSIVE DecimalDigits(_)
DecimalDigits(n) ==
    IF n < 10 THEN << 48 + n >>
    ELSE Append(DecimalDigits(n \div 10), 48 + (n % 10))

Decimal(n) == IF n < 0 THEN << 45 >> \o DecimalDigits(0 - n) ELSE DecimalDigits(n)

\* snprintf(dst, size, ...): the first size - 1 characters of the text
snprintf(size, text) == SubSeq(text, 1, Min(Len(text), size - 1))

\* show_final_score_and_reset, lines 96-105: a line centred in LCD_COLS spaces
Centered(line) ==
    LET n   == Len(line)
        pad == IF n < LCD_COLS THEN (LCD_COLS - n) \div 2 ELSE 0
        n2  == IF n > LCD_COLS THEN LCD_COLS ELSE n
    IN  [j \in 1..LCD_COLS |->
            IF j > pad /\ j <= pad + n2 THEN line[j - pad] ELSE 32]

\* "Round complete"
RoundComplete == << 82, 111, 117, 110, 100, 32, 99, 111, 109, 112, 108, 101, 116, 101 >>

\* "Score: %d/%d" of (sc, NUM_QUESTIONS)
ScoreText(sc) ==
    << 83, 99, 111, 114, 101, 58, 32 >> \o Decimal(sc) \o << 47 >> \o Decimal(NUM_QUESTIONS)

Screen(kind, n, line1, line2) ==
    [kind |-> kind, n |-> n, line1 |-> line1, line2 |-> line2]

\* show_final_score_and_reset, lines 106-111: the two lines are sent
show_final_score_lines(st, buf1, buf2) ==
    HAL_Delay(
        lcd_send_string(
            lcd_put_cur(
                lcd_send_string(lcd_put_cur(lcd_clear(st), 0, 0), buf1),
                1, 0),
            buf2),
        3000)

\* the final-score screen without the reset of the score
show_final_score_no_reset(st, sc) ==
    LET buf1 == Centered(snprintf(LCD_COLS + 1, RoundComplete))
        buf2 == Centered(snprintf(LCD_COLS + 1, ScoreText(sc)))
    IN  [screen |-> Screen("final", sc, buf1, buf2),
         score |-> sc,
         lcd |-> show_final_score_lines(st, buf1, buf2)]

\* static void show_final_score_and_reset(void), from driver state st and score
\* sc: the screen put on the display, the score and the driver state left
show_final_score_and_reset(st, sc) ==
    LET buf1 == Centered(snprintf(LCD_COLS + 1, RoundComplete))
        buf2 == Centered(snprintf(LCD_COLS + 1, ScoreText(sc)))
    IN  [screen |-> Screen("final", sc, buf1, buf2),
         score |-> 0,
         lcd |-> show_final_score_lines(st, buf1, buf2)]

\* void Error_Handler(void): __disable_irq(), then while (1) {}
Error_Handler ==
    /\ primask' = 1
    /\ quiz_pc' = "error"

\* main, lines 118-122, when a HAL initialisation fails: SystemClock_Config,
\* MX_USART1_UART_Init or MX_I2C1_Init calls Error_Handler
QuizBootFails ==
    /\ quiz_pc = "boot"
    /\ \E at \in { "SystemClock_Config", "MX_USART1_UART_Init", "MX_I2C1_Init" } :
         SystemCoreClock' = IF at = "SystemClock_Config" THEN SystemCoreClock
                            ELSE ConfiguredClock
    /\ Error_Handler
    /\ UNCHANGED <<lcd_vars, tick_by_irq, ws_pc, ws_buf, ws_led_count, ws_entry,
                   ws_irq_state, ws_i, ws_sent, ws_log,
                   q_index, score, screen, answered, right, rounds>>

\* main, lines 127-132: with RUN_ASCII_TEST the test pattern is shown for
\* three seconds
main_ascii_test(st) ==
    IF RUN_ASCII_TEST # 0
    THEN lcd_clear(HAL_Delay(lcd_ascii_test(st), 3000))
    ELSE st

\* main, lines 124-132: the display is initialised, lit and cleared
main_display_init(st) ==
    main_ascii_test(lcd_clear(lcd_backlight_on(lcd_init(st, "hi2c1", 39))))

\* main, lines 138-139: the display is cleared and question idx is shown
main_show_question(st, idx) ==
    lcd_show_wrapped(lcd_clear(st), questions[idx + 1])

\* main, lines 153-172: the feedback for an answer, correct or not
main_feedback(st, correct) ==
    IF correct # 0
    THEN HAL_Delay(correct_sound(
             lcd_send_string(lcd_put_cur(lcd_clear(st), 0, 0), CorrectText)), 400)
    ELSE HAL_Delay(wrong_sound(
             lcd_send_string(lcd_put_cur(lcd_clear(st), 0, 0), WrongText)), 400)

\* main, lines 118-134: the clock is configured and the display is set up
QuizBoot ==
    /\ quiz_pc = "boot"
    /\ SystemCoreClock' = ConfiguredClock
    /\ \E f \in Faults : MainLcd(main_display_init(Entry(f)))
    /\ quiz_pc' = "show"
    /\ UNCHANGED <<primask, tick_by_irq, ws_pc, ws_buf, ws_led_count, ws_entry,
                   ws_irq_state, ws_i, ws_sent, ws_log,
                   q_index, score, screen, answered, right, rounds>>

\* main, lines 138-139: the question q_index is put on the display
QuizShowQuestion ==
    /\ quiz_pc = "show"
    /\ \E f \in Faults : MainLcd(main_show_question(Entry(f), q_index))
    /\ screen' = Screen("question", q_index, << >>, << >>)
    /\ answered' = IF q_index = 0 THEN 0 ELSE answered
    /\ right' = IF q_index = 0 THEN 0 ELSE right
    /\ quiz_pc' = "read"
    /\ UNCHANGED <<ws_vars, q_index, score, rounds>>

\* main, lines 141-174: a line is read, is_answer_correct returns correct,
\* the feedback is shown, the score and the question index are updated
QuizAnswer(correct) ==
    /\ quiz_pc = "read"
    /\ \E f \in Faults : MainLcd(main_feedback(Entry(f), correct))
    /\ screen' = Screen("feedback", correct, << >>, << >>)
    /\ score' = IF correct # 0 THEN score + 1 ELSE score
    /\ q_index' = (q_index + 1) % NUM_QUESTIONS
    /\ answered' = answered + 1
    /\ right' = IF correct # 0 THEN right + 1 ELSE right
    /\ quiz_pc' = "wrap"
    /\ UNCHANGED <<ws_vars, rounds>>

QuizAnswered == \E correct \in {0, 1} : QuizAnswer(correct)

\* main, lines 176-178: if (q_index == 0) show_final_score_and_reset();
QuizWrap ==
    /\ quiz_pc = "wrap"
    /\ IF q_index = 0
       THEN \E f \in Faults :
              /\ MainLcd(show_final_score_and_reset(Entry(f), score).lcd)
              /\ screen' = show_final_score_and_reset(Entry(f), score).screen
              /\ score' = show_final_score_and_reset(Entry(f), score).score
              /\ rounds' = Min(rounds + 1, MaxRounds)
       ELSE /\ MainLcd(Entry(NoFault))
            /\ UNCHANGED <<screen, score, rounds>>
    /\ quiz_pc' = "pause"
    /\ UNCHANGED <<ws_vars, q_index, answered, right>>

\* main, line 179: HAL_Delay(200), then the next iteration
QuizPause ==
    /\ quiz_pc = "pause"
    /\ MainLcd(HAL_Delay(Entry(NoFault), 200))
    /\ quiz_pc' = "show"
    /\ UNCHANGED <<ws_vars, q_index, score, screen, answered, right, rounds>>

(***************************************************************************)
(* Initial states and specifications                                       *)
(***************************************************************************)
\* main.c at the entry of main: the globals hold their initialisers
QuizReset ==
    /\ quiz_pc = "boot"
    /\ q_index = 0
    /\ score = 0
    /\ screen = Screen("none", 0, << >>, << >>)
    /\ answered = 0
    /\ right = 0
    /\ rounds = 0

\* ws2812b_send not yet called
WsAtRest ==
    /\ ws_pc = "idle"
    /\ ws_buf = [len |-> 0, tile |-> << >>]
    /\ ws_led_count = 0
    /\ ws_entry = primask
    /\ ws_irq_state = 0
    /\ ws_i = 0
    /\ ws_sent = 0
    /\ ws_log = << >>

\* ws2812b_send not yet called, on either core clock, with interrupts masked
\* or not
WsIdle ==
    /\ SystemCoreClock \in CoreClocks
    /\ primask \in {0, 1}
    /\ tick_by_irq \in BOOLEAN
    /\ WsAtRest

\* i2c.c at reset: the statics hold their initialisers
LcdReset ==
    /\ nibble_shift = PCF_NIBBLE_SHIFT
    /\ hi2c_lcd = "NULL"
    /\ lcd_addr = DEFAULT_LCD_ADDR
    /\ backlight = P_CF_BL
    /\ lcd_pc = "idle"
    /\ call = Call("none", 0, 0, << >>)
    /\ bus = << >>
    /\ expander = NoByte

\* The display driver: any sequence of calls of the public functions
Init ==
    /\ geometry \in Geometries
    /\ LcdReset
    /\ WsIdle
    /\ SystemCoreClock = ConfiguredClock /\ primask = 0 /\ tick_by_irq = TRUE
    /\ QuizReset

Next ==
    \/ LcdEnter
    \/ LcdInit
    \/ LcdClear
    \/ LcdPutCur
    \/ LcdSendString
    \/ LcdBacklightOn
    \/ LcdBacklightOff
    \/ LcdShowWrapped
    \/ LcdScrollLine
    \/ LcdAsciiTest

Spec == Init /\ [][Next]_vars

\* An initialised driver inside a call c, the first after the backlight was
\* last switched
LcdInside(c) ==
    /\ hi2c_lcd = "hi2c1"
    /\ lcd_addr \in { DEFAULT_LCD_ADDR, 63 }
    /\ backlight \in { 0, P_CF_BL }
    /\ lcd_pc = "busy"
    /\ call = c
    /\ bus = << >>
    /\ expander = backlight

\* One call of a public function on an initialised driver, on every argument
CallInit ==
    /\ geometry \in Geometries
    /\ nibble_shift = PCF_NIBBLE_SHIFT
    /\ backlight \in { 0, P_CF_BL }
    /\ expander = backlight
    /\ \E c \in SingleCalls : LcdInside(c)
    /\ WsIdle
    /\ SystemCoreClock = ConfiguredClock /\ primask = 0 /\ tick_by_irq = TRUE
    /\ QuizReset

CallNext ==
    \/ LcdInit
    \/ LcdClear
    \/ LcdPutCur
    \/ LcdSendString
    \/ LcdBacklightOn
    \/ LcdBacklightOff
    \/ LcdShowWrapped
    \/ LcdScrollLine
    \/ LcdAsciiTest

CallSpec == CallInit /\ [][CallNext]_vars

\* lcd_send_cmd and lcd_send_data on every 8-bit value
XferInit ==
    /\ geometry = <<2, 16>>
    /\ nibble_shift = PCF_NIBBLE_SHIFT
    /\ \E op \in { "lcd_send_cmd", "lcd_send_data" }, v \in 0..255 :
         LcdInside(Call(op, v, 0, << >>))
    /\ WsIdle
    /\ SystemCoreClock = ConfiguredClock /\ primask = 0 /\ tick_by_irq = TRUE
    /\ QuizReset

XferNext == LcdSendCmd \/ LcdSendData

XferSpec == XferInit /\ [][XferNext]_vars

\* lcd_put_cur in every geometry, on every 8-bit row with the columns around
\* the range check and every 8-bit column with the rows around it, over a
\* transport that does not fail
CurArgs ==
    ((0..255) \X { 0, 1, LCD_COLS - 1, LCD_COLS, LCD_COLS + 1, 255 })
    \cup ({ 0, 1, LCD_ROWS - 1, LCD_ROWS, LCD_ROWS + 1, 255 } \X (0..255))

CurInit ==
    /\ geometry \in Geometries
    /\ nibble_shift = PCF_NIBBLE_SHIFT
    /\ lcd_addr = DEFAULT_LCD_ADDR /\ backlight = P_CF_BL
    /\ \E rc \in CurArgs :
         LcdInside([Call("lcd_put_cur", rc[1], rc[2], << >>)
                    EXCEPT !.transport = { NoFault }])
    /\ WsIdle
    /\ SystemCoreClock = ConfiguredClock /\ primask = 0 /\ tick_by_irq = TRUE
    /\ QuizReset

CurNext == LcdPutCur

CurSpec == CurInit /\ [][CurNext]_vars

\* lcd_write_nibble in the builds of every offered nibble offset, on every
\* 8-bit nibble argument, with the two ctrl values its callers pass
FrameInit ==
    /\ geometry = <<2, 16>>
    /\ nibble_shift \in NibbleShifts
    /\ \E nibble \in 0..255, ctrl \in { 0, P_CF_RS } :
         LcdInside(Call("lcd_write_nibble", nibble, ctrl, << >>))
    /\ WsIdle
    /\ SystemCoreClock = ConfiguredClock /\ primask = 0 /\ tick_by_irq = TRUE
    /\ QuizReset

FrameNext == LcdWriteNibble

FrameSpec == FrameInit /\ [][FrameNext]_vars

\* ws2812b_send on every short frame
WsInit ==
    /\ geometry = <<2, 16>>
    /\ LcdReset
    /\ WsIdle
    /\ QuizReset

WsNext == WsCall \/ WsByte \/ WsReset \/ WsReturn

WsSpec == WsInit /\ [][WsNext]_vars

\* ws2812b_send on long frames
WsBigInit ==
    /\ geometry = <<2, 16>>
    /\ LcdReset
    /\ WsIdle
    /\ SystemCoreClock = ConfiguredClock /\ primask = 0 /\ tick_by_irq = FALSE
    /\ QuizReset

WsBigNext == WsCallBig \/ WsByte \/ WsReset \/ WsReturn

WsBigSpec == WsBigInit /\ [][WsBigNext]_vars

\* main from its entry, in every geometry
QuizInit ==
    /\ geometry \in Geometries
    /\ LcdReset
    /\ SystemCoreClock = ResetClock /\ primask = 0 /\ tick_by_irq = TRUE
    /\ WsAtRest
    /\ QuizReset

QuizNext ==
    \/ QuizBoot
    \/ QuizBootFails
    \/ QuizShowQuestion
    \/ QuizAnswered
    \/ QuizWrap
    \/ QuizPause

QuizSpec == QuizInit /\ [][QuizNext]_vars

(***************************************************************************)
(* Reading a bus log                                                       *)
(***************************************************************************)
\* The transmits of a log, in order
Writes(log) == SelectSeq(log, LAMBDA e : e.k = "W")

\* The pins of an expander byte (default wiring: P0 = RS, P1 = RW, P2 = EN,
\* P3 = BL, P4..P7 = D4..D7)
PinRS(b) == b % 2
PinRW(b) == (b \div 2) % 2
PinEN(b) == (b \div 4) % 2
PinBL(b) == (b \div 8) % 2
PinData(b) == b \div 16

\* Transmits i, i+1, i+2 of w are one nibble transfer: a frame with EN clear,
\* then the same frame with EN set, then the same frame with EN clear
NibbleTransfer(w, i) ==
    /\ PinEN(w[i].v) = 0
    /\ w[i + 1].v = w[i].v + P_CF_EN
    /\ w[i + 2].v = w[i].v

\* w is a sequence of byte transfers, each two nibble transfers with one RS
Framed(w) ==
    /\ Len(w) % 6 = 0
    /\ \A t \in 1..(Len(w) \div 6) :
         /\ NibbleTransfer(w, 6 * t - 5)
         /\ NibbleTransfer(w, 6 * t - 2)
         /\ PinRS(w[6 * t - 5].v) = PinRS(w[6 * t - 2].v)

\* The byte transfers of w: register select, and the byte, high nibble first
Transfers(w) ==
    [t \in 1..(Len(w) \div 6) |->
        [rs |-> PinRS(w[6 * t - 5].v),
         byte |-> 16 * PinData(w[6 * t - 5].v) + PinData(w[6 * t - 2].v)]]

Cmd(b)  == [rs |-> 0, byte |-> b]
Data(b) == [rs |-> 1, byte |-> b]

Returned(op) == lcd_pc = "idle" /\ call.op = op

\* DDRAM address of the first cell of each row, per geometry (HD44780)
RowBase(row) ==
    CASE geometry = <<2, 16>> -> <<0, 64>>[row + 1]
      [] geometry = <<4, 20>> -> <<0, 64, 20, 84>>[row + 1]
      [] geometry = <<1, 16>> -> <<0>>[row + 1]

\* 0x80 | x for a byte x
Or80(x) == IF x >= 128 THEN x ELSE x + 128

(***************************************************************************)
(* C1: for every 8-bit value v, lcd_send_cmd(v) and lcd_send_data(v) emit   *)
(* exactly two nibble transfers, v >> 4 first and v & 0x0F second, each     *)
(* followed by exactly one enable pulse (a write with EN set, then one with *)
(* EN cleared); RS is set in every write of a data transfer and clear in    *)
(* every write of a command transfer.                                       *)
(***************************************************************************)
C1_TwoNibblesHighFirst ==
    (Returned("lcd_send_cmd") \/ Returned("lcd_send_data")) =>
        LET w  == Writes(bus)
            v  == call.n1
            rs == IF call.op = "lcd_send_data" THEN 1 ELSE 0
        IN  /\ Len(w) = 6
            /\ NibbleTransfer(w, 1) /\ PinData(w[1].v) = v \div 16
            /\ NibbleTransfer(w, 4) /\ PinData(w[4].v) = v % 16
            /\ \A i \in 1..6 : PinRS(w[i].v) = rs
            /\ Cardinality({ i \in 1..6 : PinEN(w[i].v) = 1 }) = 2

C1_Witness ==
    /\ Returned("lcd_send_data") /\ call.n1 = 165
    /\ Len(Writes(bus)) = 6 /\ PinData(Writes(bus)[1].v) = 10

(***************************************************************************)
(* C2: in the tabulated geometries (16x2: rows at 0x00, 0x40; 20x4: rows at *)
(* 0x00, 0x40, 0x14, 0x54), for row < LCD_ROWS and col < LCD_COLS,          *)
(* lcd_put_cur(row, col) issues exactly one command byte, equal to          *)
(* 0x80 | (base[row] + col).                                                *)
(***************************************************************************)
C2_CursorAddress ==
    ( /\ Returned("lcd_put_cur")
      /\ geometry \in { <<2, 16>>, <<4, 20>> }
      /\ call.n1 < LCD_ROWS /\ call.n2 < LCD_COLS ) =>
        /\ Framed(Writes(bus))
        /\ Transfers(Writes(bus)) = << Cmd(Or80(RowBase(call.n1) + call.n2)) >>

C2_Witness ==
    /\ Returned("lcd_put_cur") /\ geometry = <<4, 20>>
    /\ call.n1 = 3 /\ call.n2 = 19
    /\ Transfers(Writes(bus)) = << Cmd(231) >>

(***************************************************************************)
(* C3: for every 8-bit row and col, lcd_put_cur(row, col) issues the same   *)
(* command byte as lcd_put_cur(min(row, LCD_ROWS-1), min(col, LCD_COLS-1)): *)
(* out-of-range arguments are clamped, never wrapped, never rejected.       *)
(***************************************************************************)
C3_CursorClamped ==
    Returned("lcd_put_cur") =>
        LET r  == Min(call.n1, LCD_ROWS - 1)
            c  == Min(call.n2, LCD_COLS - 1)
            in_range == lcd_put_cur(Driver(hi2c_lcd, lcd_addr, backlight, NoFault), r, c)
        IN  /\ Framed(Writes(bus))
            /\ Len(Transfers(Writes(bus))) = 1
            /\ Transfers(Writes(bus)) = Transfers(Writes(in_range.bus))
            /\ Transfers(Writes(bus)) = << Cmd(Or80(RowBase(r) + c)) >>

C3_Witness ==
    /\ Returned("lcd_put_cur") /\ geometry = <<2, 16>>
    /\ call.n1 = 2 /\ call.n2 = 200
    /\ Transfers(Writes(bus)) = << Cmd(207) >>

(***************************************************************************)
(* Reading a pin log                                                       *)
(***************************************************************************)
\* Bit (7 - k mod 8) of buffer[k div 8]: the bit that pulse k (from 0) carries
FrameBit(buf, k) == (buf.tile[(k \div 8) + 1] \div (2 ^ (7 - (k % 8)))) % 2

\* Events 4k+1 .. 4k+4 of the log are bit pulse k: pin high, the high wait of
\* the bit's value, pin low, a wait
BitPulse(log, buf, k) ==
    /\ log[4 * k + 1].k = "PIN" /\ log[4 * k + 1].v = 1
    /\ log[4 * k + 2].k = "NOP"
    /\ log[4 * k + 2].v = (IF FrameBit(buf, k) = 1 THEN T1H ELSE T0H)
    /\ log[4 * k + 3].k = "PIN" /\ log[4 * k + 3].v = 0
    /\ log[4 * k + 4].k = "NOP"

\* Events i, i+1 of the log are the trailing low hold
ResetHold(log, i) ==
    /\ log[i].k = "PIN" /\ log[i].v = 0
    /\ log[i + 1].k = "DELAY" /\ log[i + 1].v = 1

WsPastLoop == ws_pc \in {"hold", "done"}

(***************************************************************************)
(* C4: for every buffer of 3*N bytes, ws2812b_send(buffer, N) emits exactly *)
(* 24*N bit pulses, pulse k with the '1' high wait if bit (7 - k mod 8) of  *)
(* buffer[k div 8] is set and the '0' high wait otherwise, and after the    *)
(* last pulse exactly one trailing low hold (pin low, then the reset delay).*)
(* In states: the byte loop never runs more than 3*N times, has run exactly *)
(* 3*N times once it is left, and the pin log of a logged frame is the 24*N *)
(* pulses followed by the hold.                                             *)
(***************************************************************************)
C4_FramePulses ==
    /\ ws_sent <= 3 * ws_led_count
    /\ WsPastLoop => ws_sent = 3 * ws_led_count
    /\ (WsPastLoop /\ ws_led_count <= MaxLeds) =>
          /\ Len(ws_log) = 96 * ws_led_count + 2
          /\ \A k \in 0..(24 * ws_led_count - 1) : BitPulse(ws_log, ws_buf, k)
          /\ ResetHold(ws_log, 96 * ws_led_count + 1)

\* a two-LED frame sent in full
C4_SmallFrameSent ==
    /\ ws_pc = "done" /\ ws_led_count = 2 /\ ws_sent = 6
    /\ ws_buf.tile = <<128, 53, 53, 128, 128, 53>>
    /\ Len(ws_log) = 194

(***************************************************************************)
(* C5: ws2812b_send with led_count = 0 never drives the pin high (no bit    *)
(* pulse, no buffer byte read) but still drives the pin low and performs    *)
(* the reset hold before returning.                                         *)
(***************************************************************************)
C5_ZeroLeds ==
    (ws_pc # "idle" /\ ws_led_count = 0) =>
        /\ ws_sent = 0
        /\ \A i \in 1..Len(ws_log) : ~(ws_log[i].k = "PIN" /\ ws_log[i].v = 1)
        /\ WsPastLoop => (Len(ws_log) = 2 /\ ResetHold(ws_log, 1))

C5_Witness ==
    /\ ws_pc = "done" /\ ws_led_count = 0
    /\ Len(ws_log) = 2 /\ ResetHold(ws_log, 1)

(***************************************************************************)
(* C9: in ws2812b_send interrupts are masked at every pin write and every   *)
(* wait from the first bit pulse through the reset hold, and at return      *)
(* PRIMASK equals its value at entry.                                       *)
(***************************************************************************)
C9_InterruptMask ==
    /\ \A i \in 1..Len(ws_log) : ws_log[i].m = 1
    /\ ws_pc \in {"loop", "hold"} => primask = 1
    /\ ws_pc = "done" => primask = ws_entry

C9_Witness ==
    /\ ws_pc = "done" /\ ws_entry = 1 /\ primask = 1
    /\ ws_led_count = 1 /\ Len(ws_log) = 98

\* the other entry state: interrupts enabled at entry are enabled at return
C9_WitnessEnabled ==
    /\ ws_pc = "done" /\ ws_entry = 0 /\ primask = 0
    /\ ws_led_count = 1 /\ Len(ws_log) = 98

(***************************************************************************)
(* C6 (as claimed): backlight toggling is idempotent and touches only the   *)
(* backlight bit: two consecutive calls of lcd_backlight_on write the same  *)
(* byte, and the byte written by lcd_backlight_on / lcd_backlight_off       *)
(* differs from the byte last written to the expander in at most the        *)
(* backlight bit.                                                           *)
(***************************************************************************)
BacklightReturned == Returned("lcd_backlight_on") \/ Returned("lcd_backlight_off")

C6_OnlyBacklightBit ==
    BacklightReturned =>
        LET w == Writes(bus)
        IN  /\ Len(w) = 1
            /\ (call.op = "lcd_backlight_on" /\ call.prev = "lcd_backlight_on")
                  => w[1].v = call.pre
            /\ call.pre # NoByte =>
                  /\ PinRS(w[1].v) = PinRS(call.pre)
                  /\ PinRW(w[1].v) = PinRW(call.pre)
                  /\ PinEN(w[1].v) = PinEN(call.pre)
                  /\ PinData(w[1].v) = PinData(call.pre)

(***************************************************************************)
(* What the code does at the backlight calls (holds): lcd_backlight_on      *)
(* writes exactly the byte P_CF_BL and lcd_backlight_off exactly 0, once,   *)
(* and the flag becomes that byte, so two consecutive calls of              *)
(* lcd_backlight_on write the same byte; RS, RW, EN and the data bits are   *)
(* written as 0 whatever the expander held.                                 *)
(***************************************************************************)
C6_BacklightByte ==
    BacklightReturned =>
        LET w == Writes(bus)
            b == IF call.op = "lcd_backlight_on" THEN P_CF_BL ELSE 0
        IN  /\ Len(bus) = 1 /\ Len(w) = 1
            /\ w[1].v = b /\ backlight = b
            /\ (call.op = "lcd_backlight_on" /\ call.prev = "lcd_backlight_on")
                  => w[1].v = call.pre
            /\ call.pre # NoByte => PinEN(w[1].v) = PinEN(call.pre)

\* lcd_backlight_on called twice in a row
C6_Witness ==
    /\ Returned("lcd_backlight_on") /\ call.prev = "lcd_backlight_on"
    /\ call.pre = P_CF_BL /\ Writes(bus)[1].v = P_CF_BL

\* main.c:124-125: lcd_backlight_on right after lcd_init finds 0x68 on the
\* expander and writes 0x08: the data bits D5 and D6 are cleared
C6_DataBitsCleared ==
    /\ Returned("lcd_backlight_on") /\ call.prev = "lcd_init"
    /\ call.pre = 104 /\ Writes(bus)[1].v = P_CF_BL
    /\ PinData(call.pre) = 6 /\ PinData(Writes(bus)[1].v) = 0

(***************************************************************************)
(* C7: for every string s shorter than LCD_COLS (the empty one included),   *)
(* lcd_show_wrapped(s) issues exactly one cursor command, for (0, 0), then  *)
(* exactly Len(s) data transfers carrying s in order, and nothing for any   *)
(* other row.                                                               *)
(***************************************************************************)
C7_ShortStringRowZeroOnly ==
    (Returned("lcd_show_wrapped") /\ Len(call.str) < LCD_COLS) =>
        /\ Framed(Writes(bus))
        /\ Transfers(Writes(bus)) =
              << Cmd(128) >> \o [j \in 1..Len(call.str) |-> Data(call.str[j])]

C7_Witness ==
    /\ Returned("lcd_show_wrapped") /\ Len(call.str) = LCD_COLS - 1
    /\ Len(Transfers(Writes(bus))) = LCD_COLS

\* the empty string: the cursor command alone
C7_WitnessEmpty ==
    /\ Returned("lcd_show_wrapped") /\ call.str = << >>
    /\ Transfers(Writes(bus)) = << Cmd(128) >>

(***************************************************************************)
(* C8: for every string s of length LCD_ROWS * LCD_COLS, lcd_show_wrapped(s)*)
(* positions the cursor at (r, 0) for r = 0 .. LCD_ROWS-1 in increasing     *)
(* order and after each positioning sends the LCD_COLS characters of that   *)
(* row; every character is sent exactly once, nothing else is sent and no   *)
(* row is skipped.                                                          *)
(***************************************************************************)
\* the transfers of a full row r of s: the cursor command, then the characters
RowTransfers(s, r) ==
    << Cmd(Or80(RowBase(r))) >>
    \o [j \in 1..LCD_COLS |-> Data(s[r * LCD_COLS + j])]

RECURSIVE RowsTransfers(_, _)
RowsTransfers(s, r) ==
    IF r = LCD_ROWS THEN << >>
    ELSE RowTransfers(s, r) \o RowsTransfers(s, r + 1)

C8_FullScreen ==
    (Returned("lcd_show_wrapped") /\ Len(call.str) = LCD_ROWS * LCD_COLS) =>
        /\ Framed(Writes(bus))
        /\ Transfers(Writes(bus)) = RowsTransfers(call.str, 0)

C8_Witness ==
    /\ Returned("lcd_show_wrapped") /\ geometry = <<4, 20>>
    /\ Len(call.str) = 80
    /\ Len(Transfers(Writes(bus))) = 84
    /\ Transfers(Writes(bus))[64] = Cmd(212)

(***************************************************************************)
(* C10: for every public display function and every pattern of statuses     *)
(* returned by the bus transmits, the bytes written to the bus (and the     *)
(* delays between them) and the driver state afterwards are those of the    *)
(* run in which every transmit succeeds: nothing is skipped, repeated or    *)
(* reordered after a failure.                                               *)
(***************************************************************************)
\* The function of call c run from driver state st
RunCall(c, st) ==
    CASE c.op = "lcd_init"          -> lcd_init(st, "hi2c1", c.n1)
      [] c.op = "lcd_clear"         -> lcd_clear(st)
      [] c.op = "lcd_put_cur"       -> lcd_put_cur(st, c.n1, c.n2)
      [] c.op = "lcd_send_string"   -> lcd_send_string(st, c.str)
      [] c.op = "lcd_backlight_on"  -> lcd_backlight_on(st)
      [] c.op = "lcd_backlight_off" -> lcd_backlight_off(st)
      [] c.op = "lcd_show_wrapped"  -> lcd_show_wrapped(st, c.str)
      [] c.op = "lcd_scroll_line"   -> lcd_scroll_line(st, c.n1, c.str, c.n2)
      [] c.op = "lcd_ascii_test"    -> lcd_ascii_test(st)

\* A log without the statuses
Unstatused(log) == [i \in 1..Len(log) |-> [k |-> log[i].k, v |-> log[i].v, a |-> log[i].a]]

C10_FailuresIgnored ==
    [][ (lcd_pc = "busy" /\ lcd_pc' = "idle") =>
            LET ok == RunCall(call, Entry(NoFault))
            IN  /\ Unstatused(bus') = Unstatused(ok.bus)
                /\ lcd_addr' = ok.lcd_addr
                /\ backlight' = ok.backlight
                /\ hi2c_lcd' = ok.hi2c_lcd ]_vars

\* a call during which every transmit failed
C10_Witness ==
    /\ Returned("lcd_show_wrapped") /\ call.fault.kind = "HAL_ERROR"
    /\ Len(call.str) = LCD_COLS + 1
    /\ Len(Writes(bus)) = 6 * (LCD_COLS + 3)
    /\ \A i \in 1..Len(bus) : bus[i].k = "W" => bus[i].s = "HAL_ERROR"

(***************************************************************************)
(* Reading a bus log, delays included                                      *)
(***************************************************************************)
\* The events of a log as <<kind, value>>
KV(log) == [i \in 1..Len(log) |-> << log[i].k, log[i].v >>]

\* What one nibble transfer of the frame f (EN clear) puts in the log
NibbleEvents(f) ==
    << <<"W", f>>, <<"W", f + P_CF_EN>>, <<"D", 1>>, <<"W", f>>, <<"D", 1>> >>

\* The frame of nibble x with register select rs under backlight flag bl
FrameOf(x, rs, bl) == 16 * x + bl + rs

\* What the transfer of command byte b, and of data byte b, puts in the log
CmdEvents(b, bl) ==
    NibbleEvents(FrameOf(b \div 16, 0, bl)) \o NibbleEvents(FrameOf(b % 16, 0, bl))
    \o << <<"D", 2>> >>

DataEvents(b, bl) ==
    NibbleEvents(FrameOf(b \div 16, 1, bl)) \o NibbleEvents(FrameOf(b % 16, 1, bl))
    \o << <<"D", 1>> >>

\* The function-set command of the geometry
FunctionSet == IF LCD_ROWS > 1 THEN 40 ELSE 32

(***************************************************************************)
(* C11 (as claimed): lcd_init waits the power-up delay, then emits, with    *)
(* nothing else in between, three handshake nibbles each followed by a      *)
(* delay that decreases from one nibble to the next, then the function-set  *)
(* command, display-on/cursor-off (0x0C), clear (0x01), entry-mode (0x06);  *)
(* afterwards the bus address is addr & 0x7F and the backlight flag is on.  *)
(***************************************************************************)
C11_InitAsClaimed ==
    Returned("lcd_init") =>
        /\ lcd_addr = call.n1 % 128
        /\ backlight = P_CF_BL
        /\ \E d1, d2, d3 \in 1..50 :
             /\ d1 > d2 /\ d2 > d3
             /\ \E tail \in { << >>, << <<"D", 2>> >> } :
                  KV(bus) =
                      << <<"D", 50>> >>
                      \o NibbleEvents(FrameOf(3, 0, P_CF_BL)) \o << <<"D", d1>> >>
                      \o NibbleEvents(FrameOf(3, 0, P_CF_BL)) \o << <<"D", d2>> >>
                      \o NibbleEvents(FrameOf(3, 0, P_CF_BL)) \o << <<"D", d3>> >>
                      \o CmdEvents(FunctionSet, P_CF_BL)
                      \o CmdEvents(12, P_CF_BL)
                      \o CmdEvents(1, P_CF_BL) \o tail
                      \o CmdEvents(6, P_CF_BL)

(***************************************************************************)
(* C11 (amended): lcd_init waits the 50 ms power-up delay, then emits, with *)
(* nothing else in between: the handshake nibble 0x3 three times, followed  *)
(* by delays of 5, 5 and 2 ms (never increasing); the nibble 0x2 that       *)
(* switches to 4-bit mode, followed by 2 ms; the function-set command (0x28 *)
(* when LCD_ROWS > 1, 0x20 otherwise); display-on/cursor-off (0x0C); clear  *)
(* (0x01) followed by 2 ms; entry-mode (0x06).  Every transmit goes to the  *)
(* new bus address; afterwards the bus address is addr & 0x7F, the handle   *)
(* is bound and the backlight flag is on.                                   *)
(***************************************************************************)
C11_InitSequence ==
    Returned("lcd_init") =>
        /\ lcd_addr = call.n1 % 128
        /\ hi2c_lcd = "hi2c1"
        /\ backlight = P_CF_BL
        /\ \A i \in 1..Len(bus) : bus[i].k = "W" => bus[i].a = 2 * (call.n1 % 128)
        /\ KV(bus) =
              << <<"D", 50>> >>
              \o NibbleEvents(FrameOf(3, 0, P_CF_BL)) \o << <<"D", 5>> >>
              \o NibbleEvents(FrameOf(3, 0, P_CF_BL)) \o << <<"D", 5>> >>
              \o NibbleEvents(FrameOf(3, 0, P_CF_BL)) \o << <<"D", 2>> >>
              \o NibbleEvents(FrameOf(2, 0, P_CF_BL)) \o << <<"D", 2>> >>
              \o CmdEvents(FunctionSet, P_CF_BL)
              \o CmdEvents(12, P_CF_BL)
              \o CmdEvents(1, P_CF_BL) \o << <<"D", 2>> >>
              \o CmdEvents(6, P_CF_BL)

\* lcd_init on a one-line display, with an address that has bit 7 set
C11_Witness ==
    /\ Returned("lcd_init") /\ geometry = <<1, 16>>
    /\ call.n1 = 167 /\ lcd_addr = 39
    /\ Len(Writes(bus)) = 36
    /\ Writes(bus)[13].v = FrameOf(2, 0, P_CF_BL)

(***************************************************************************)
(* C12: lcd_scroll_line(row, text, delay): if length(text) <= LCD_COLS it   *)
(* issues one cursor command for (row, 0), sends text once and returns      *)
(* without any step delay.  Otherwise it ends after exactly                 *)
(* length(text) - LCD_COLS + 1 steps; step k (from 0) positions the cursor  *)
(* at (row, 0), sends exactly the LCD_COLS characters                       *)
(* text[k .. k+LCD_COLS-1] and then blocks for delay; the last window ends  *)
(* on the last character of text, and the windows index text at no position *)
(* at or beyond the terminator and the window buffer at none beyond         *)
(* LCD_COLS.  (The length is taken by strlen, which reads up to the         *)
(* terminator.)                                                             *)
(***************************************************************************)
\* The log of the data transfers of s[from .. to] (from 1)
RECURSIVE StringEvents(_, _, _, _)
StringEvents(s, from, to, bl) ==
    IF from > to THEN << >>
    ELSE DataEvents(s[from], bl) \o StringEvents(s, from + 1, to, bl)

\* The log of the cursor command for (row, 0), the row clamped
CursorEvents(row, bl) == CmdEvents(Or80(RowBase(Min(row, LCD_ROWS - 1))), bl)

\* The log of the scroll steps k .. last of text
RECURSIVE ScrollEvents(_, _, _, _, _, _)
ScrollEvents(row, text, delay, k, last, bl) ==
    IF k > last THEN << >>
    ELSE CursorEvents(row, bl)
         \o StringEvents(text, k + 1, k + LCD_COLS, bl)
         \o << <<"D", delay>> >>
         \o ScrollEvents(row, text, delay, k + 1, last, bl)

C12_ScrollLine ==
    Returned("lcd_scroll_line") =>
        LET text == call.str
            n    == Len(text)
        IN  IF n <= LCD_COLS
            THEN /\ KV(bus) = CursorEvents(call.n1, backlight)
                              \o StringEvents(text, 1, n, backlight)
                 /\ call.rd = {} /\ call.wr = {}
            ELSE /\ KV(bus) = ScrollEvents(call.n1, text, call.n2, 0,
                                           n - LCD_COLS, backlight)
                 /\ Len(SelectSeq(bus, LAMBDA e : e.k = "D" /\ e.v = call.n2))
                       = n - LCD_COLS + 1
                 /\ call.rd = 0..(n - 1)
                 /\ call.wr = 0..LCD_COLS

\* a text two characters longer than a row, scrolled on a row out of range
C12_Witness ==
    /\ Returned("lcd_scroll_line") /\ Len(call.str) = LCD_COLS + 2
    /\ call.n1 = LCD_ROWS
    /\ Len(SelectSeq(bus, LAMBDA e : e.k = "D" /\ e.v = call.n2)) = 3
    /\ bus[Len(bus)].k = "D" /\ bus[Len(bus)].v = call.n2

(***************************************************************************)
(* C13: in the quiz loop the final-score screen ("Round complete" /         *)
(* "Score: s/NUM_QUESTIONS") is shown only right after the NUM_QUESTIONS-th *)
(* question of a round has been answered (q_index has wrapped to 0), never  *)
(* after another question; the score shown is the number of correct answers *)
(* of that round; 0 <= score <= NUM_QUESTIONS and q_index is in             *)
(* 0 .. NUM_QUESTIONS-1 in every state; score is 0 when the first question  *)
(* of the next round is shown.                                              *)
(***************************************************************************)
\* text occurs in line, from position i on
Occurs(text, line, i) ==
    /\ i + Len(text) - 1 <= Len(line)
    /\ \A j \in 1..Len(text) : line[i + j - 1] = text[j]

Shows(line, text) == \E i \in 1..Len(line) : Occurs(text, line, i)

C13_FinalScoreAtRoundEnd ==
    /\ 0 <= score /\ score <= NUM_QUESTIONS
    /\ q_index \in 0..(NUM_QUESTIONS - 1)
    /\ screen.kind = "final" =>
          /\ answered = NUM_QUESTIONS /\ q_index = 0
          /\ quiz_pc \in { "pause", "show" }
          /\ Shows(screen.line1, RoundComplete)
          /\ Shows(screen.line2, << 58, 32, 48 + right, 47, 48 + NUM_QUESTIONS >>)
          /\ Len(screen.line1) = LCD_COLS /\ Len(screen.line2) = LCD_COLS
    /\ screen.kind # "final" => score = right
    /\ (quiz_pc = "pause" /\ q_index # 0) => screen.kind = "feedback"
    /\ (quiz_pc = "read" /\ q_index = 0) =>
          /\ score = 0
          /\ screen.kind = "question" /\ screen.n = 0

\* the second round ends with two correct answers out of three
C13_Witness ==
    /\ screen.kind = "final" /\ rounds = 2 /\ right = 2 /\ score = 0
    /\ quiz_pc = "pause"
    /\ Shows(screen.line2, << 50, 47, 51 >>)

(***************************************************************************)
(* Bit periods in a pin log                                                *)
(***************************************************************************)
\* Number of bit pulses in the log
Pulses(log) == Len(log) \div 4

\* Nanoseconds asked of the delay routine during pulse k (from 0): the high
\* wait plus the low wait
PeriodAsked(log, k) == log[4 * k + 2].v + log[4 * k + 4].v

(***************************************************************************)
(* C14 (as claimed): the total period of a bit pulse (high duration plus    *)
(* the complementary low duration) is the same for a '1' bit as for a '0'   *)
(* bit: T1H + T1L = T0H + T0L, so the time to send a byte does not depend   *)
(* on its value.                                                            *)
(***************************************************************************)
C14_ConstantBitPeriod ==
    \A k1, k2 \in 0..(Pulses(ws_log) - 1) :
        PeriodAsked(ws_log, k1) = PeriodAsked(ws_log, k2)

(***************************************************************************)
(* C14 (amended): the nanosecond targets of a bit pulse depend on the bit:  *)
(* a '1' bit asks for T1H + T1L = 1300 ns, a '0' bit for T0H + T0L =        *)
(* 1150 ns, 150 ns less; the targets of a byte add up to 8 * 1150 ns plus   *)
(* 150 ns for every bit set in it.                                          *)
(***************************************************************************)
C14_BitPeriods ==
    /\ (T1H + T1L) - (T0H + T0L) = 150
    /\ \A k \in 0..(Pulses(ws_log) - 1) :
          /\ ws_log[4 * k + 2].k = "NOP" /\ ws_log[4 * k + 4].k = "NOP"
          /\ PeriodAsked(ws_log, k) =
                (IF FrameBit(ws_buf, k) = 1 THEN 1300 ELSE 1150)

\* a frame whose first byte is 1000 0000: a '1' pulse then a '0' pulse
C14_Witness ==
    /\ ws_pc = "done" /\ ws_led_count = 1 /\ ws_buf.tile[1] = 128
    /\ PeriodAsked(ws_log, 0) = 1300 /\ PeriodAsked(ws_log, 1) = 1150

(***************************************************************************)
(* C15: a '1' bit holds the pin high longer than a '0' bit: at the core     *)
(* clock the firmware runs at (84 MHz as configured, 168 MHz as the comment *)
(* assumes) the number of busy-wait iterations for T1H is strictly greater  *)
(* than the number for T0H, and each iteration count equals                 *)
(* floor(floor(ns * clock / 10^9) / 2), computed without overflow.          *)
(***************************************************************************)
\* floor(floor(ns * clock / 10^9) / 2) for a clock of whole megahertz
ExactIterations(ns, clock) == ((ns * (clock \div 1000000)) \div 1000) \div 2

C15_OneHeldLonger ==
    /\ \A i \in 1..Len(ws_log) :
          ws_log[i].k = "NOP" =>
              ws_log[i].n = ExactIterations(ws_log[i].v, SystemCoreClock)
    /\ \A i, j \in 1..Len(ws_log) :
          ( /\ ws_log[i].k = "NOP" /\ ws_log[i].v = T1H
            /\ ws_log[j].k = "NOP" /\ ws_log[j].v = T0H )
          => ws_log[i].n > ws_log[j].n

(***************************************************************************)
(* C16: for every value of the 16-bit led_count (0 .. 65535) the byte loop  *)
(* of ws2812b_send runs to completion: it ends after exactly 3 * led_count  *)
(* iterations, its 16-bit index visits each of 0 .. 3*led_count - 1 exactly *)
(* once in increasing order, and it never reads a buffer index it has       *)
(* already read or one outside 0 .. 3*led_count - 1.  In states: inside the *)
(* loop the index equals the number of iterations completed and the next    *)
(* read is inside the buffer; once the loop is left it has run 3*led_count  *)
(* times.                                                                   *)
(***************************************************************************)
C16_ByteLoopCompletes ==
    /\ ws_pc = "loop" =>
          /\ ws_i = ws_sent
          /\ ws_loop_cond(ws_i, ws_led_count) => BufAt(ws_buf, ws_i) # OutOfBounds
    /\ WsPastLoop => (ws_i = 3 * ws_led_count /\ ws_sent = 3 * ws_led_count)

(***************************************************************************)
(* C17: every enable pulse bounds a stable frame: within one nibble         *)
(* transfer the three bus writes are out, out | EN, out & ~EN in that       *)
(* order, so the byte written with EN set and the byte written with EN      *)
(* cleared equal the frame written just before the pulse in every bit other *)
(* than EN (data nibble, RS, RW, backlight), and a hold delay separates the *)
(* EN-set write from the EN-clear write and follows the EN-clear write.     *)
(***************************************************************************)
\* Event i of the log is a transmit with EN set
Pulse(log, i) == log[i].k = "W" /\ PinEN(log[i].v) = 1

\* The byte b with the EN bit cleared
WithoutEN(b) == b - P_CF_EN * PinEN(b)

C17_StableFrame ==
    (Returned("lcd_send_cmd") \/ Returned("lcd_send_data")) =>
        /\ \E i \in 1..Len(bus) : Pulse(bus, i)
        /\ \A i \in 1..Len(bus) :
              Pulse(bus, i) =>
                 /\ i >= 2 /\ i + 3 <= Len(bus)
                 /\ bus[i - 1].k = "W" /\ PinEN(bus[i - 1].v) = 0
                 /\ bus[i - 1].v = WithoutEN(bus[i].v)
                 /\ bus[i + 1].k = "D" /\ bus[i + 1].v >= 1
                 /\ bus[i + 2].k = "W" /\ bus[i + 2].v = bus[i - 1].v
                 /\ bus[i + 3].k = "D" /\ bus[i + 3].v >= 1
        /\ \A i \in 1..Len(bus) :
              (bus[i].k = "W" /\ ~Pulse(bus, i)) =>
                 \/ (i + 1 <= Len(bus) /\ Pulse(bus, i + 1))
                 \/ (i >= 3 /\ Pulse(bus, i - 2))

\* a data byte sent with the backlight off: frames 0xA1 and 0x51
C17_Witness ==
    /\ Returned("lcd_send_data") /\ call.n1 = 165 /\ backlight = 0
    /\ KV(bus) = NibbleEvents(161) \o NibbleEvents(81) \o << <<"D", 1>> >>

(***************************************************************************)
(* C18: for every string s of any length (0, shorter than a row, an exact   *)
(* multiple of LCD_COLS, longer than LCD_ROWS * LCD_COLS),                  *)
(* lcd_show_wrapped(s) sends exactly the first                              *)
(* min(length(s), LCD_ROWS * LCD_COLS) characters of s, character j going   *)
(* to row j div LCD_COLS after a cursor command for (that row, 0); text     *)
(* beyond the last row is never sent; s is never read at an index greater   *)
(* than length(s) (the terminator) and the chunk buffer is never written at *)
(* an index greater than LCD_COLS.                                          *)
(***************************************************************************)
\* The transfers of rows r .. of the first n characters of s: for each row
\* the cursor command, then the characters of s that fall in the row
RECURSIVE WrappedTransfers(_, _, _)
WrappedTransfers(s, n, r) ==
    LET first == r * LCD_COLS + 1
        last  == Min((r + 1) * LCD_COLS, n)
    IN  << Cmd(Or80(RowBase(r))) >>
        \o [j \in 1..(last - first + 1) |-> Data(s[first + j - 1])]
        \o (IF last < n THEN WrappedTransfers(s, n, r + 1) ELSE << >>)

C18_WrappedSafely ==
    Returned("lcd_show_wrapped") =>
        LET s == call.str
            n == Min(Len(s), LCD_ROWS * LCD_COLS)
        IN  /\ Framed(Writes(bus))
            /\ Transfers(Writes(bus)) = WrappedTransfers(s, n, 0)
            /\ Len(SelectSeq(Transfers(Writes(bus)), LAMBDA x : x.rs = 1)) = n
            /\ call.rd = 0..n
            /\ call.rd \subseteq 0..Len(s)
            /\ call.wr = 0..Min(n, LCD_COLS)
            /\ call.wr \subseteq 0..LCD_COLS

\* a string one character longer than the display area
C18_Witness ==
    /\ Returned("lcd_show_wrapped") /\ geometry = <<2, 16>>
    /\ Len(call.str) = 33
    /\ Len(Transfers(Writes(bus))) = 34
    /\ call.rd = 0..32 /\ call.wr = 0..16

\* a string that fills the first row exactly: one row, no second cursor command
C18_WitnessExactRow ==
    /\ Returned("lcd_show_wrapped") /\ geometry = <<2, 16>>
    /\ Len(call.str) = 16
    /\ Len(Transfers(Writes(bus))) = 17
    /\ call.rd = 0..16

(***************************************************************************)
(* C19: after any sequence of public display operations, every byte written *)
(* to the expander carries the backlight bit equal to the current backlight *)
(* flag: once lcd_backlight_off has been called, every bus write of every   *)
(* later command or data transfer has the backlight bit clear until the     *)
(* next lcd_backlight_on or lcd_init, and symmetrically for on; no command  *)
(* or data transfer changes the flag.  As a step property: when a call      *)
(* returns, every byte it wrote carries the flag it leaves; lcd_init and    *)
(* lcd_backlight_on leave the flag on, lcd_backlight_off leaves it off, and *)
(* every other function leaves the flag it found.                           *)
(***************************************************************************)
C19_BacklightFollowsFlag ==
    [][ (lcd_pc = "busy" /\ lcd_pc' = "idle") =>
            /\ \A i \in 1..Len(bus') :
                  bus'[i].k = "W" => PinBL(bus'[i].v) * P_CF_BL = backlight'
            /\ call.op \in { "lcd_init", "lcd_backlight_on" } => backlight' = P_CF_BL
            /\ call.op = "lcd_backlight_off" => backlight' = 0
            /\ call.op \notin { "lcd_init", "lcd_backlight_on", "lcd_backlight_off" }
                  => backlight' = backlight ]_vars

\* a string shown while the backlight is off
C19_Witness ==
    /\ Returned("lcd_show_wrapped") /\ backlight = 0
    /\ Len(call.str) = LCD_COLS
    /\ Len(Writes(bus)) = 6 * (LCD_COLS + 1)
    /\ \A i \in 1..Len(bus) : bus[i].k = "W" => PinBL(bus[i].v) = 0

(***************************************************************************)
(* C20: every call to ws2812b_send eventually returns: the trailing reset   *)
(* hold, which is waited on with the millisecond tick delay while           *)
(* interrupts are still masked (the tick being advanced only by the tick    *)
(* interrupt), completes, after which the interrupt state is restored and   *)
(* control returns to the caller.  In states: whenever the function is in   *)
(* the reset hold and the tick is advanced only by the tick interrupt, the  *)
(* step that ends the hold and returns can be taken.                        *)
(***************************************************************************)
C20_HoldCompletes ==
    (ws_pc = "hold" /\ tick_by_irq) => ENABLED WsReturn

(***************************************************************************)
(* C21: for each supported nibble bit-offset (PCF_NIBBLE_SHIFT in 3, 4, 5)  *)
(* and every nibble value 0 .. 15, the frame byte built by lcd_write_nibble *)
(* carries all four nibble bits (the nibble is recoverable as               *)
(* (frame >> offset) & 0x0F), none of the nibble bits occupies the RS, RW,  *)
(* EN or backlight bit position (those bits of the frame are ctrl's RS, 0,  *)
(* 0 and the backlight flag), and the RW bit is clear in every frame.       *)
(***************************************************************************)
\* The frame: the first byte lcd_write_nibble transmits
C21_FrameCarriesNibble ==
    Returned("lcd_write_nibble") =>
        LET frame == Writes(bus)[1].v
        IN  /\ (frame \div (2 ^ nibble_shift)) % 16 = call.n1 % 16
            /\ PinRS(frame) = call.n2
            /\ PinRW(frame) = 0
            /\ PinEN(frame) = 0
            /\ PinBL(frame) * P_CF_BL = backlight
            /\ \A i \in 1..Len(bus) : bus[i].k = "W" => PinRW(bus[i].v) = 0

\* the same for the build's offset alone, PCF_NIBBLE_SHIFT = 4
C21_DefaultOffset ==
    nibble_shift = PCF_NIBBLE_SHIFT => C21_FrameCarriesNibble

\* nibble 1000 under offset 5: the frame 0x09 holds none of its bits
C21_LostBit ==
    /\ Returned("lcd_write_nibble") /\ nibble_shift = 5
    /\ call.n1 = 8 /\ call.n2 = P_CF_RS /\ backlight = P_CF_BL
    /\ Writes(bus)[1].v = 9

\* nibble 0001 under offset 3 with the backlight off: the frame 0x08 sets the
\* backlight bit
C21_BacklightHit ==
    /\ Returned("lcd_write_nibble") /\ nibble_shift = 3
    /\ call.n1 = 1 /\ call.n2 = 0 /\ backlight = 0
    /\ Writes(bus)[1].v = 8

====
